---- MODULE Spec2Model ----
(***************************************************************************)
(* Verification model of the motion-control core of bevy-tnua:             *)
(*   - SegmentedJumpInitialVelocityCalculator   (src/src/util.rs)          *)
(*   - FallingThroughControlScheme   (src/examples/common/falling_through.rs) *)
(*                                                                         *)
(* f32 values are modelled as fixed-point integers: the integer n stands   *)
(* for the f32 value n / Scale.  Every input is drawn from a dyadic grid   *)
(* (integer heights and thresholds, power-of-two gravities), on which each *)
(* f32 operation add_segment performs is exact (all operands and results   *)
(* are dyadic rationals with far fewer than 24 significant bits), so the   *)
(* fixed-point result is the f32 result.  NaN, infinite and -0.0 arguments *)
(* are outside the model.                                                  *)
(***************************************************************************)
EXTENDS Integers, Sequences, FiniteSets, TLC

VARIABLES
    total_height,     \* argument new() was called with (kept for the claims)
    height,           \* SegmentedJumpInitialVelocityCalculator.height
    kinetic_energy,   \* SegmentedJumpInitialVelocityCalculator.kinetic_energy
    segments,         \* add_segment calls made so far, in order (history)
    climbed,          \* history: sum over calls of (energy gained) / gravity
    scheme,           \* the entity's FallingThroughControlScheme
    fall_through_helper,   \* TnuaSimpleFallThroughPlatformsHelper state
    proximity_output, \* TnuaProximitySensor.output : None or Some(hit)
    ghost_sensor,     \* TnuaGhostSensor.0 : hits, nearest first
    stage,            \* position in the frame: what has run last
    call,             \* arguments of this frame's perform_and_check_if_still_crouching
    ret,              \* its return value (both meaningful once stage = "Decided")
    effects,          \* history: helper operations it invoked, output writes it made
    ran,              \* history: the system sets that have run in this tick, in order
    logic_input       \* what the Logic stage read in this tick: None or Some(...)

calcVars == <<total_height, height, kinetic_energy, segments, climbed>>

fallVars == <<scheme, fall_through_helper, proximity_output, ghost_sensor,
              stage, call, ret, effects, ran, logic_input>>

vars == <<total_height, height, kinetic_energy, segments, climbed,
          scheme, fall_through_helper, proximity_output, ghost_sensor,
          stage, call, ret, effects, ran, logic_input>>

----------------------------------------------------------------------------
(* Bounds *)

MaxHeight == 4        \* total_height ranges over -1/2 .. MaxHeight/2, in halves
MaxThreshold == 2     \* velocity_threshold ranges over -MaxThreshold .. MaxThreshold
MaxGravityExp == 1    \* |gravity| ranges over 2^0 .. 2^MaxGravityExp
MaxSegments == 3      \* number of add_segment calls in one chain
MaxPlatforms == 2     \* ghost platform entities 1 .. MaxPlatforms
MaxGhostHits == 2     \* hits the ghost sensor holds in one frame
MaxProximity == 3     \* proximities range over 1/2 .. MaxProximity/2, in halves

----------------------------------------------------------------------------
(* f32 on the dyadic grid *)

Scale == 64

F(n) == n * Scale

Half == Scale \div 2

RECURSIVE Pow2(_)
Pow2(e) == IF e = 0 THEN 1 ELSE 2 * Pow2(e - 1)

Abs(a) == IF a < 0 THEN -a ELSE a

Sign(a) == IF a < 0 THEN -1 ELSE 1

\* f32 multiplication
FMul(a, b) == Sign(a) * Sign(b) * ((Abs(a) * Abs(b)) \div Scale)

\* f32 division by a non-zero divisor
FDiv(a, b) == Sign(a) * Sign(b) * ((Abs(a) * Scale) \div Abs(b))

\* f32::powi(2)
powi2(v) == FMul(v, v)

Heights == {n * Half : n \in -1 .. MaxHeight}

Thresholds == {F(n) : n \in -MaxThreshold .. MaxThreshold}

Gravities == {F(Pow2(e)) : e \in 0 .. MaxGravityExp} \cup {0, -F(1)}

----------------------------------------------------------------------------
(* SegmentedJumpInitialVelocityCalculator *)

new(th) == [height |-> th, kinetic_energy |-> 0]

\* add_segment with one slip: `slip` names the line that is wrong
add_segment_with_slip(self, gravity, velocity_threshold, slip) ==
    IF slip # "no_height_guard" /\ self.height <= 0
    THEN self
    ELSE LET kinetic_energy_at_velocity_threshold ==
                 FMul(Half, powi2(velocity_threshold))
             transferred_energy ==
                 kinetic_energy_at_velocity_threshold - self.kinetic_energy
         IN  IF slip # "no_energy_guard" /\ transferred_energy <= 0
             THEN self
             ELSE IF \/ gravity = 0
                     \/ (slip # "comparison_flipped"
                           /\ self.height < FDiv(transferred_energy, gravity))
                     \/ (slip = "comparison_flipped"
                           /\ self.height > FDiv(transferred_energy, gravity))
                  THEN [height |-> IF slip = "height_not_zeroed"
                                   THEN self.height ELSE 0,
                        kinetic_energy |->
                            IF slip = "height_without_gravity"
                            THEN self.kinetic_energy + self.height
                            ELSE IF slip = "energy_sign"
                            THEN self.kinetic_energy
                                     - FMul(self.height, gravity)
                            ELSE self.kinetic_energy
                                     + FMul(self.height, gravity)]
                  ELSE [height |->
                            (IF slip = "height_minus_energy"
                             THEN self.height - transferred_energy
                             ELSE IF slip = "height_sign"
                             THEN self.height
                                      + FDiv(transferred_energy, gravity)
                             ELSE self.height
                                      - FDiv(transferred_energy, gravity)),
                        kinetic_energy |->
                            self.kinetic_energy + transferred_energy]

\* the cut-short segment adds height instead of height * gravity
add_segment_height_without_gravity(self, gravity, velocity_threshold) ==
    add_segment_with_slip(self, gravity, velocity_threshold,
                          "height_without_gravity")

\* the `height <= 0` early return is missing
add_segment_no_height_guard(self, gravity, velocity_threshold) ==
    add_segment_with_slip(self, gravity, velocity_threshold, "no_height_guard")

\* a completed segment subtracts its energy, not its height
add_segment_height_minus_energy(self, gravity, velocity_threshold) ==
    add_segment_with_slip(self, gravity, velocity_threshold,
                          "height_minus_energy")

\* the `transferred_energy <= 0` early return is missing
add_segment_no_energy_guard(self, gravity, velocity_threshold) ==
    add_segment_with_slip(self, gravity, velocity_threshold, "no_energy_guard")

\* the cut-short segment subtracts height * gravity from the energy
add_segment_energy_sign(self, gravity, velocity_threshold) ==
    add_segment_with_slip(self, gravity, velocity_threshold, "energy_sign")

\* a completed segment adds its height to the remaining height
add_segment_height_sign(self, gravity, velocity_threshold) ==
    add_segment_with_slip(self, gravity, velocity_threshold, "height_sign")

\* the cut-short segment forgets `self.height = 0.0`
add_segment_height_not_zeroed(self, gravity, velocity_threshold) ==
    add_segment_with_slip(self, gravity, velocity_threshold,
                          "height_not_zeroed")

\* `self.height < segment_height` is written with `>`
add_segment_comparison_flipped(self, gravity, velocity_threshold) ==
    add_segment_with_slip(self, gravity, velocity_threshold,
                          "comparison_flipped")

\* a non-positive gravity is rejected with an error value
add_segment_rejects_gravity(self, gravity, velocity_threshold) ==
    IF gravity <= 0
    THEN [error |-> "gravity must be positive"]
    ELSE add_segment_with_slip(self, gravity, velocity_threshold, "none")

add_segment(self, gravity, velocity_threshold) ==
    IF self.height <= 0
    THEN self
    ELSE LET kinetic_energy_at_velocity_threshold ==
                 FMul(Half, powi2(velocity_threshold))
             transferred_energy ==
                 kinetic_energy_at_velocity_threshold - self.kinetic_energy
         IN  IF transferred_energy <= 0
             THEN self
             ELSE \* transferred_energy > 0 here, so a zero gravity makes
                  \* segment_height +infinity and the comparison true
                  IF gravity = 0
                     \/ self.height < FDiv(transferred_energy, gravity)
                  THEN [height |-> 0,
                        kinetic_energy |->
                            self.kinetic_energy + FMul(self.height, gravity)]
                  ELSE [height |->
                            self.height - FDiv(transferred_energy, gravity),
                        kinetic_energy |->
                            self.kinetic_energy + transferred_energy]

\* the calculator before any call, while the frame pipeline is explored
CalcIdle ==
    /\ total_height = 0
    /\ height = new(0).height
    /\ kinetic_energy = new(0).kinetic_energy
    /\ segments = <<>>
    /\ climbed = 0

----------------------------------------------------------------------------
(* Sensors *)

None == <<>>

Some(x) == <<x>>

Platforms == 1 .. MaxPlatforms

Ground == 0

Proximities == {n * Half : n \in 1 .. MaxProximity}

Hit(e, p) == [entity |-> e, proximity |-> p]

GhostHits == {Hit(e, p) : e \in Platforms, p \in Proximities}

\* the solid ground stops the cast, so it is the farthest hit
SolidHits == {Hit(Ground, MaxProximity * Half)}

\* what a cast can leave in the ghost sensor: each platform at most once,
\* nearest first
GhostSensorValues ==
    {gs \in UNION {[1 .. n -> GhostHits] : n \in 0 .. MaxGhostHits} :
        /\ \A i, j \in DOMAIN gs : i # j => gs[i].entity # gs[j].entity
        /\ \A i, j \in DOMAIN gs : i < j => gs[i].proximity <= gs[j].proximity}

SchemeValues == {"WithoutHelper", "SingleFall", "KeepFalling"}

----------------------------------------------------------------------------
(* TnuaSimpleFallThroughPlatformsHelper *)

HelperIdle == [state |-> "Idle", through |-> {}]

\* indices of the ghost hits the helper may act on
AvailableIndices(ghost, min_proximity) ==
    {i \in DOMAIN ghost : min_proximity <= ghost[i].proximity}

MinOf(S) == CHOOSE i \in S : \A j \in S : i <= j

SensedEntities(ghost) == {ghost[i].entity : i \in DOMAIN ghost}

\* the nearest available ghost platform outside the set `except` becomes the
\* proximity sensor's output, if there is one
StandOnNearest(output, ghost, min_proximity, except) ==
    LET candidates == {i \in AvailableIndices(ghost, min_proximity) :
                           ghost[i].entity \notin except}
    IN  IF candidates = {} THEN output
        ELSE Some(ghost[MinOf(candidates)])

dont_fall(helper, output, ghost, min_proximity) ==
    [helper |-> HelperIdle,
     output |-> StandOnNearest(output, ghost, min_proximity, {}),
     result |-> FALSE]

try_falling(helper, output, ghost, min_proximity) ==
    LET available == AvailableIndices(ghost, min_proximity)
    IN  IF available = {}
        THEN [helper |-> HelperIdle, output |-> output, result |-> FALSE]
        ELSE [helper |-> [state |-> "FallingThroughContinuous",
                          through |-> {ghost[i].entity : i \in available}],
              output |-> output,
              result |-> TRUE]

try_falling_one_step_at_a_time(helper, output, ghost, min_proximity, just_pressed) ==
    LET available == AvailableIndices(ghost, min_proximity)
        passing == helper.through \cap SensedEntities(ghost)
    IN  IF just_pressed
        THEN IF available = {}
             THEN [helper |-> HelperIdle, output |-> output, result |-> FALSE]
             ELSE [helper |-> [state |-> "FallingThroughOne",
                               through |-> {ghost[MinOf(available)].entity}],
                   output |-> output,
                   result |-> TRUE]
        ELSE IF passing # {}
             THEN [helper |-> [state |-> "FallingThroughOne",
                               through |-> passing],
                   output |-> StandOnNearest(output, ghost, min_proximity,
                                             passing),
                   result |-> TRUE]
             ELSE [helper |-> HelperIdle,
                   output |-> StandOnNearest(output, ghost, min_proximity, {}),
                   result |-> FALSE]

----------------------------------------------------------------------------
(* FallingThroughControlScheme *)

\* perform_and_check_if_still_crouching with one slip
perform_with_slip(self, crouch, crouch_just_pressed, helper, output, ghost, min_proximity, slip) ==
    CASE self = "WithoutHelper" ->
            IF /\ ghost # <<>>
               /\ (IF slip = "min_proximity_threshold" THEN min_proximity
                   ELSE F(1)) <= ghost[1].proximity
            THEN IF crouch
                 THEN [result |-> FALSE, helper |-> helper,
                       output |-> IF slip = "override_while_crouching"
                                  THEN Some(ghost[1]) ELSE output,
                       invoked |-> <<>>,
                       writes |-> IF slip = "override_while_crouching"
                                  THEN 1 ELSE 0]
                 ELSE IF slip = "without_helper_dont_fall"
                 THEN LET r == dont_fall(helper, output, ghost, min_proximity)
                      IN  [result |-> crouch, helper |-> r.helper,
                           output |-> r.output,
                           invoked |-> << <<"dont_fall">> >>, writes |-> 0]
                 ELSE [result |-> crouch, helper |-> helper,
                       output |-> IF slip = "farthest_hit"
                                  THEN Some(ghost[Len(ghost)])
                                  ELSE Some(ghost[1]),
                       invoked |-> <<>>, writes |-> 1]
            ELSE [result |-> crouch, helper |-> helper, output |-> output,
                  invoked |-> <<>>, writes |-> 0]
      [] self = "SingleFall" ->
            IF crouch
            THEN LET jp == IF slip = "crouch_as_just_pressed" THEN crouch
                           ELSE crouch_just_pressed
                     r == try_falling_one_step_at_a_time(
                              helper, output, ghost, min_proximity, jp)
                 IN  [result |-> ~r.result, helper |-> r.helper,
                      output |-> r.output,
                      invoked |-> << <<"try_falling_one_step_at_a_time", jp>> >>,
                      writes |-> 0]
            ELSE IF slip = "release_without_dont_fall"
            THEN [result |-> FALSE, helper |-> helper, output |-> output,
                  invoked |-> <<>>, writes |-> 0]
            ELSE LET r == dont_fall(helper, output, ghost, min_proximity)
                 IN  [result |-> FALSE, helper |-> r.helper,
                      output |-> r.output,
                      invoked |-> << <<"dont_fall">> >>, writes |-> 0]
      [] self = "KeepFalling" ->
            IF crouch
            THEN IF slip = "keep_falling_one_step"
                 THEN LET r == try_falling_one_step_at_a_time(
                                   helper, output, ghost, min_proximity,
                                   crouch_just_pressed)
                      IN  [result |-> ~r.result, helper |-> r.helper,
                           output |-> r.output,
                           invoked |-> << <<"try_falling_one_step_at_a_time",
                                            crouch_just_pressed>> >>,
                           writes |-> 0]
                 ELSE LET r == try_falling(helper, output, ghost, min_proximity)
                      IN  [result |-> IF slip = "not_negated" THEN r.result
                                      ELSE ~r.result,
                           helper |-> r.helper,
                           output |-> r.output,
                           invoked |-> << <<"try_falling">> >>, writes |-> 0]
            ELSE LET r == dont_fall(helper, output, ghost, min_proximity)
                 IN  [result |-> FALSE, helper |-> r.helper,
                      output |-> r.output,
                      invoked |-> << <<"dont_fall">> >>, writes |-> 0]

\* WithoutHelper writes the ghost hit before it looks at crouch
perform_override_while_crouching(self, crouch, crouch_just_pressed, helper, output, ghost, min_proximity) ==
    perform_with_slip(self, crouch, crouch_just_pressed, helper, output,
                      ghost, min_proximity, "override_while_crouching")

\* WithoutHelper takes ghost_sensor.0.last() for the override
perform_farthest_hit(self, crouch, crouch_just_pressed, helper, output, ghost, min_proximity) ==
    perform_with_slip(self, crouch, crouch_just_pressed, helper, output,
                      ghost, min_proximity, "farthest_hit")

\* WithoutHelper compares the hit with min_proximity instead of 1.0
perform_min_proximity_threshold(self, crouch, crouch_just_pressed, helper, output, ghost, min_proximity) ==
    perform_with_slip(self, crouch, crouch_just_pressed, helper, output,
                      ghost, min_proximity, "min_proximity_threshold")

\* SingleFall hands crouch to the helper where crouch_just_pressed belongs
perform_crouch_as_just_pressed(self, crouch, crouch_just_pressed, helper, output, ghost, min_proximity) ==
    perform_with_slip(self, crouch, crouch_just_pressed, helper, output,
                      ghost, min_proximity, "crouch_as_just_pressed")

\* KeepFalling calls the one-step operation, as SingleFall does
perform_keep_falling_one_step(self, crouch, crouch_just_pressed, helper, output, ghost, min_proximity) ==
    perform_with_slip(self, crouch, crouch_just_pressed, helper, output,
                      ghost, min_proximity, "keep_falling_one_step")

\* SingleFall returns false on release without telling the helper
perform_release_without_dont_fall(self, crouch, crouch_just_pressed, helper, output, ghost, min_proximity) ==
    perform_with_slip(self, crouch, crouch_just_pressed, helper, output,
                      ghost, min_proximity, "release_without_dont_fall")

\* KeepFalling returns the helper's result without the `!`
perform_not_negated(self, crouch, crouch_just_pressed, helper, output, ghost, min_proximity) ==
    perform_with_slip(self, crouch, crouch_just_pressed, helper, output,
                      ghost, min_proximity, "not_negated")

\* WithoutHelper leaves the override to the helper's dont_fall
perform_without_helper_dont_fall(self, crouch, crouch_just_pressed, helper, output, ghost, min_proximity) ==
    perform_with_slip(self, crouch, crouch_just_pressed, helper, output,
                      ghost, min_proximity, "without_helper_dont_fall")

perform_and_check_if_still_crouching(self, crouch, crouch_just_pressed, helper, output, ghost, min_proximity) ==
    CASE self = "WithoutHelper" ->
            IF ghost # <<>> /\ F(1) <= ghost[1].proximity
            THEN IF crouch
                 THEN [result |-> FALSE, helper |-> helper, output |-> output,
                       invoked |-> <<>>, writes |-> 0]
                 ELSE [result |-> crouch, helper |-> helper,
                       output |-> Some(ghost[1]),
                       invoked |-> <<>>, writes |-> 1]
            ELSE [result |-> crouch, helper |-> helper, output |-> output,
                  invoked |-> <<>>, writes |-> 0]
      [] self = "SingleFall" ->
            IF crouch
            THEN LET r == try_falling_one_step_at_a_time(
                              helper, output, ghost, min_proximity,
                              crouch_just_pressed)
                 IN  [result |-> ~r.result, helper |-> r.helper,
                      output |-> r.output,
                      invoked |-> << <<"try_falling_one_step_at_a_time",
                                       crouch_just_pressed>> >>,
                      writes |-> 0]
            ELSE LET r == dont_fall(helper, output, ghost, min_proximity)
                 IN  [result |-> FALSE, helper |-> r.helper,
                      output |-> r.output,
                      invoked |-> << <<"dont_fall">> >>, writes |-> 0]
      [] self = "KeepFalling" ->
            IF crouch
            THEN LET r == try_falling(helper, output, ghost, min_proximity)
                 IN  [result |-> ~r.result, helper |-> r.helper,
                      output |-> r.output,
                      invoked |-> << <<"try_falling">> >>, writes |-> 0]
            ELSE LET r == dont_fall(helper, output, ghost, min_proximity)
                 IN  [result |-> FALSE, helper |-> r.helper,
                      output |-> r.output,
                      invoked |-> << <<"dont_fall">> >>, writes |-> 0]

NoCall == [crouch |-> FALSE, crouch_just_pressed |-> FALSE,
           min_proximity |-> F(1)]

NoEffects == [helper_calls |-> <<>>, output_writes |-> 0]

\* the system sets of one tick; TnuaUserControlsSystemSet holds the system
\* that calls perform_and_check_if_still_crouching
TnuaPipelineStages == <<"Sensors", "SubservientSensors", "Logic", "Motors">>

TnuaUserControlsSystemSet == "UserControls"

FallInit ==
    /\ scheme \in SchemeValues
    /\ fall_through_helper = HelperIdle
    /\ proximity_output = None
    /\ ghost_sensor = <<>>
    /\ stage = "Start"
    /\ call = NoCall
    /\ ret = FALSE
    /\ effects = NoEffects
    /\ ran = <<>>
    /\ logic_input = None
    /\ CalcIdle

\* the Sensors stage opens a tick: the backend's cast rewrites both sensors
Sense(output, ghost) ==
    /\ stage \in {"Start", "Motors"}
    /\ proximity_output' = output
    /\ ghost_sensor' = ghost
    /\ stage' = "Sensed"
    /\ call' = NoCall
    /\ ret' = FALSE
    /\ effects' = NoEffects
    /\ ran' = <<TnuaPipelineStages[1]>>
    /\ logic_input' = None
    /\ UNCHANGED <<scheme, fall_through_helper>>
    /\ UNCHANGED calcVars

\* the SubservientSensors stage: after Sensors, before Logic, on either side
\* of the user-controls system
SubservientSensors ==
    /\ stage \in {"Sensed", "Decided"}
    /\ \A i \in DOMAIN ran : ran[i] # TnuaPipelineStages[2]
    /\ ran' = Append(ran, TnuaPipelineStages[2])
    /\ UNCHANGED <<scheme, fall_through_helper, proximity_output,
                   ghost_sensor, stage, call, ret, effects, logic_input>>
    /\ UNCHANGED calcVars

\* the user-controls system calls the scheme once per frame
Perform(crouch, crouch_just_pressed, min_proximity) ==
    /\ stage = "Sensed"
    /\ LET r == perform_and_check_if_still_crouching(
                    scheme, crouch, crouch_just_pressed, fall_through_helper,
                    proximity_output, ghost_sensor, min_proximity)
       IN  /\ ret' = r.result
           /\ fall_through_helper' = r.helper
           /\ proximity_output' = r.output
           /\ effects' = [helper_calls |-> r.invoked,
                          output_writes |-> r.writes]
    /\ call' = [crouch |-> crouch,
                crouch_just_pressed |-> crouch_just_pressed,
                min_proximity |-> min_proximity]
    /\ stage' = "Decided"
    /\ ran' = Append(ran, TnuaUserControlsSystemSet)
    /\ UNCHANGED <<scheme, ghost_sensor, logic_input>>
    /\ UNCHANGED calcVars

\* Logic scheduled right after Sensors, not after the user-controls system
LogicBeforeUserControls ==
    /\ stage \in {"Sensed", "Decided"}
    /\ logic_input' = Some([output |-> proximity_output, crouching |-> ret])
    /\ stage' = "Logic"
    /\ ran' = Append(ran, TnuaPipelineStages[3])
    /\ UNCHANGED <<scheme, fall_through_helper, proximity_output,
                   ghost_sensor, call, ret, effects>>
    /\ UNCHANGED calcVars

\* the Logic stage reads the proximity sensor's output and the crouch
\* decision of this tick
Logic ==
    /\ stage = "Decided"
    /\ \E i \in DOMAIN ran : ran[i] = TnuaPipelineStages[2]
    /\ logic_input' = Some([output |-> proximity_output, crouching |-> ret])
    /\ stage' = "Logic"
    /\ ran' = Append(ran, TnuaPipelineStages[3])
    /\ UNCHANGED <<scheme, fall_through_helper, proximity_output,
                   ghost_sensor, call, ret, effects>>
    /\ UNCHANGED calcVars

\* the Motors stage closes the tick; the record of the tick's call and of
\* what Logic read ends with it
Motors ==
    /\ stage = "Logic"
    /\ stage' = "Motors"
    /\ ran' = Append(ran, TnuaPipelineStages[4])
    /\ call' = NoCall
    /\ ret' = FALSE
    /\ effects' = NoEffects
    /\ logic_input' = None
    /\ UNCHANGED <<scheme, fall_through_helper, proximity_output,
                   ghost_sensor>>
    /\ UNCHANGED calcVars

\* a click on another variant in the combo box
EditWithUi(variant) ==
    /\ stage \in {"Start", "Motors"}
    /\ variant # scheme
    /\ scheme' = variant
    /\ UNCHANGED <<fall_through_helper, proximity_output, ghost_sensor,
                   stage, call, ret, effects, ran, logic_input>>
    /\ UNCHANGED calcVars

FallNext ==
    \/ \E output \in {None} \cup {Some(h) : h \in SolidHits},
          ghost \in GhostSensorValues : Sense(output, ghost)
    \/ \E crouch \in BOOLEAN, crouch_just_pressed \in BOOLEAN,
          min_proximity \in Proximities :
            Perform(crouch, crouch_just_pressed, min_proximity)
    \/ SubservientSensors
    \/ Logic
    \/ Motors
    \/ \E variant \in SchemeValues : EditWithUi(variant)

----------------------------------------------------------------------------
(* The calculator's call chain *)

\* the entity before its first frame
FallIdle ==
    /\ scheme = "WithoutHelper"
    /\ fall_through_helper = HelperIdle
    /\ proximity_output = None
    /\ ghost_sensor = <<>>
    /\ stage = "Start"
    /\ call = NoCall
    /\ ret = FALSE
    /\ effects = NoEffects
    /\ ran = <<>>
    /\ logic_input = None

CalcInit ==
    /\ FallIdle
    /\ total_height \in Heights
    /\ height = new(total_height).height
    /\ kinetic_energy = new(total_height).kinetic_energy
    /\ segments = <<>>
    /\ climbed = 0

AddSegment(gravity, velocity_threshold) ==
    /\ Len(segments) < MaxSegments
    /\ LET self == [height |-> height, kinetic_energy |-> kinetic_energy]
           after == add_segment(self, gravity, velocity_threshold)
           gained == after.kinetic_energy - kinetic_energy
       IN  /\ height' = after.height
           /\ kinetic_energy' = after.kinetic_energy
           /\ climbed' = IF gravity = 0 THEN climbed
                         ELSE climbed + FDiv(gained, gravity)
    /\ segments' = Append(segments,
                          [gravity |-> gravity,
                           velocity_threshold |-> velocity_threshold])
    /\ UNCHANGED total_height
    /\ UNCHANGED fallVars

CalcNext == \E g \in Gravities, vt \in Thresholds : AddSegment(g, vt)

----------------------------------------------------------------------------
(* Specifications *)

\* the calculator, from new() through a chain of add_segment calls
CalcSpec == CalcInit /\ [][CalcNext]_vars

\* one entity's ticks: the pipeline stages with the fall-through decision
\* between sensing and Logic
FallSpec == FallInit /\ [][FallNext]_vars


----------------------------------------------------------------------------
(* Vocabulary of the properties, stated independently of add_segment *)

\* 0.5 * v^2
HalfSquare(v) == (v * v) \div (2 * Scale)

NumSegments == Len(segments)

LastSegment == segments[NumSegments]

\* the step is one add_segment call
IsAddSegmentStep == segments' # segments

CalledSegment == segments'[Len(segments')]

PositiveGravities == \A i \in 1 .. NumSegments : segments[i].gravity > 0

StrictlyIncreasingThresholds ==
    \A i \in 1 .. NumSegments - 1 :
        segments[i].velocity_threshold < segments[i + 1].velocity_threshold

NonDecreasingMagnitudes ==
    \A i \in 1 .. NumSegments - 1 :
        Abs(segments[i].velocity_threshold)
            <= Abs(segments[i + 1].velocity_threshold)

\* every f32 operation add_segment would perform in this state is exact
ExactOnGrid ==
    \A g \in Gravities, vt \in Thresholds :
        LET sq == powi2(vt)
            ke == FMul(Half, sq)
            te == ke - kinetic_energy
        IN  /\ sq * Scale = vt * vt
            /\ ke * Scale = Half * sq
            /\ (g # 0 /\ te > 0) => FDiv(te, g) * g = te * Scale
            /\ FMul(height, g) * Scale = height * g

----------------------------------------------------------------------------
(* C1 *)

EnergyClimbsConsumedHeight ==
    /\ climbed = total_height - height
    /\ (height = 0 => climbed = total_height)
    /\ (height > 0 /\ NumSegments >= 1 =>
            kinetic_energy = HalfSquare(LastSegment.velocity_threshold))

\* C1 as stated: for total_height >= 0, positive gravities and strictly
\* increasing thresholds, the energy gained per segment divided by that
\* segment's gravity sums to the height consumed, and while height remains
\* the kinetic energy is 0.5 * (last threshold)^2.
C1_AsStated ==
    (total_height >= 0 /\ PositiveGravities /\ StrictlyIncreasingThresholds)
        => EnergyClimbsConsumedHeight

\* C1 amended: the same, for thresholds that are strictly increasing and do
\* not decrease in magnitude (as non-negative thresholds do): the energy
\* gained per segment divided by that segment's gravity sums to
\* total_height minus the remaining height, and while height remains the
\* kinetic energy is 0.5 * (last threshold)^2.
C1_EnergyClimbsConsumedHeight ==
    (/\ total_height >= 0
     /\ PositiveGravities
     /\ StrictlyIncreasingThresholds
     /\ NonDecreasingMagnitudes)
        => EnergyClimbsConsumedHeight

\* two segments contributed in order and the second was cut short by the
\* remaining height
C1_Witness ==
    /\ NumSegments = 2
    /\ total_height > 0
    /\ PositiveGravities
    /\ StrictlyIncreasingThresholds
    /\ NonDecreasingMagnitudes
    /\ segments[1].velocity_threshold > 0
    /\ segments[2].gravity # F(1)
    /\ height = 0
    /\ kinetic_energy > HalfSquare(segments[1].velocity_threshold)
    /\ kinetic_energy < HalfSquare(segments[2].velocity_threshold)

----------------------------------------------------------------------------
(* C2 *)

FirstSegmentCoversHeight ==
    /\ NumSegments >= 1
    /\ total_height >= 0
    /\ segments[1].gravity > 0
    /\ HalfSquare(segments[1].velocity_threshold)
           >= FMul(segments[1].gravity, total_height)

\* C2: when the first segment's threshold energy is at least
\* gravity * total_height (equality included), then after that call, and
\* after every later call with any arguments, kinetic_energy is exactly
\* gravity * total_height and the remaining height is 0.
C2_SingleSegmentConsumesHeight ==
    FirstSegmentCoversHeight =>
        /\ kinetic_energy = FMul(segments[1].gravity, total_height)
        /\ height = 0

\* the equality case, followed by a call with a larger threshold
C2_Witness ==
    /\ FirstSegmentCoversHeight
    /\ total_height > 0
    /\ HalfSquare(segments[1].velocity_threshold)
           = FMul(segments[1].gravity, total_height)
    /\ NumSegments >= 2
    /\ HalfSquare(segments[2].velocity_threshold) > kinetic_energy

----------------------------------------------------------------------------
(* C3 *)

H1 == FDiv(HalfSquare(segments[1].velocity_threshold), segments[1].gravity)

H2 == FDiv(HalfSquare(segments[2].velocity_threshold)
               - HalfSquare(segments[1].velocity_threshold),
           segments[2].gravity)

TwoUnlimitedSegments ==
    /\ NumSegments = 2
    /\ segments[1].gravity > 0
    /\ segments[2].gravity > 0
    /\ segments[1].velocity_threshold < segments[2].velocity_threshold
    /\ H1 <= total_height
    /\ H1 + H2 <= total_height

ReachesSecondThreshold ==
    /\ kinetic_energy = HalfSquare(segments[2].velocity_threshold)
    /\ height = total_height - H1 - H2

\* C3 as stated: two chained segments with t1 < t2, positive gravities and
\* h1 + h2 <= total_height leave kinetic_energy = 0.5 * t2^2 and
\* height = total_height - h1 - h2.
C3_AsStated == TwoUnlimitedSegments => ReachesSecondThreshold

\* C3 amended: two chained segments with t1 < t2 and |t1| <= |t2| (as for
\* non-negative thresholds), positive gravities and h1 + h2 <= total_height
\* leave kinetic_energy = 0.5 * t2^2 and height = total_height - h1 - h2.
C3_TwoSegmentsReachSecondThreshold ==
    (TwoUnlimitedSegments /\ NonDecreasingMagnitudes) => ReachesSecondThreshold

\* both segments contributed, under different gravities, with height left
C3_Witness ==
    /\ TwoUnlimitedSegments
    /\ NonDecreasingMagnitudes
    /\ segments[1].velocity_threshold > 0
    /\ segments[1].gravity # segments[2].gravity
    /\ H1 > 0
    /\ H2 > 0
    /\ height > 0

----------------------------------------------------------------------------
(* C4 *)

\* C4: an add_segment call whose 0.5 * velocity_threshold^2 - kinetic_energy
\* is negative or zero leaves kinetic_energy and height unchanged, whatever
\* its gravity.
C4_NonPositiveTransferIsNoOp ==
    [][(/\ IsAddSegmentStep
        /\ HalfSquare(CalledSegment.velocity_threshold) - kinetic_energy <= 0)
           => (kinetic_energy' = kinetic_energy /\ height' = height)]_vars

\* with height still remaining, the last call had a threshold energy below
\* the accumulated energy and a non-positive gravity
C4_Witness ==
    /\ NumSegments >= 2
    /\ height > 0
    /\ LastSegment.gravity <= 0
    /\ HalfSquare(LastSegment.velocity_threshold) < kinetic_energy

----------------------------------------------------------------------------
(* C5 *)

NoOpOnceHeightIsZero ==
    [][height = 0 => (kinetic_energy' = kinetic_energy /\ height' = height)]_vars

\* C5 as stated: height >= 0 and kinetic_energy >= 0 in every state
\* reachable from new(total_height), and once height = 0 no call changes
\* either field.
C5_AsStated ==
    /\ [](height >= 0 /\ kinetic_energy >= 0)
    /\ NoOpOnceHeightIsZero

\* C5 amended: for total_height >= 0, height >= 0 and kinetic_energy >= 0 in
\* every state reachable from new(total_height), and once height = 0 no
\* call changes either field.
C5_NonNegativeFields ==
    /\ [](total_height >= 0 => (height >= 0 /\ kinetic_energy >= 0))
    /\ NoOpOnceHeightIsZero

\* the height was used up by a cut-short segment and a later call asked for
\* more energy
C5_Witness ==
    /\ total_height > 0
    /\ NumSegments >= 2
    /\ height = 0
    /\ kinetic_energy > 0
    /\ HalfSquare(LastSegment.velocity_threshold) > kinetic_energy
    /\ LastSegment.gravity > 0

----------------------------------------------------------------------------
(* C6 *)

StartsAtTotalHeight ==
    NumSegments = 0 => (height = total_height /\ kinetic_energy = 0)

\* C6 as stated: height starts at total_height and never increases,
\* kinetic_energy starts at 0 and never decreases, across every call.
C6_AsStated ==
    /\ []StartsAtTotalHeight
    /\ [][height' <= height /\ kinetic_energy' >= kinetic_energy]_vars

\* C6 amended: height starts at total_height, kinetic_energy at 0, and
\* across every add_segment call with gravity > 0 height does not increase
\* and kinetic_energy does not decrease.
C6_Monotone ==
    /\ []StartsAtTotalHeight
    /\ [][(IsAddSegmentStep /\ CalledSegment.gravity > 0)
             => (height' <= height /\ kinetic_energy' >= kinetic_energy)]_vars

\* three calls with positive gravity have each lowered the height and raised
\* the energy
C6_Witness ==
    /\ NumSegments = 2
    /\ PositiveGravities
    /\ HalfSquare(segments[1].velocity_threshold) > 0
    /\ HalfSquare(segments[1].velocity_threshold) < kinetic_energy
    /\ height > 0
    /\ height < total_height - H1

----------------------------------------------------------------------------
(* Vocabulary of the fall-through properties *)

\* the step is one perform_and_check_if_still_crouching call
IsPerformStep == stage = "Sensed" /\ stage' = "Decided"

NearestGhostInRange ==
    ghost_sensor # <<>> /\ ghost_sensor[1].proximity >= F(1)

FirstHitOnly(ghost) == IF ghost = <<>> THEN <<>> ELSE <<ghost[1]>>

----------------------------------------------------------------------------
(* C7 *)

\* C7: under WithoutHelper, with the nearest ghost hit at proximity >= 1.0
\* and crouch held, the call returns false and leaves the proximity
\* sensor's output as it was.
C7_WithoutHelperCrouchCancels ==
    [][(/\ IsPerformStep
        /\ scheme = "WithoutHelper"
        /\ NearestGhostInRange
        /\ call'.crouch)
           => (ret' = FALSE /\ proximity_output' = proximity_output)]_vars

C7_Witness ==
    /\ stage = "Decided"
    /\ scheme = "WithoutHelper"
    /\ NearestGhostInRange
    /\ call.crouch
    /\ ret = FALSE
    /\ proximity_output = Some(Hit(Ground, MaxProximity * Half))

----------------------------------------------------------------------------
(* C8 *)

\* C8: under WithoutHelper, with the nearest ghost hit at proximity >= 1.0
\* and crouch not held, the call returns false and the proximity sensor's
\* output becomes Some(nearest ghost hit).
C8_WithoutHelperStandsOnGhost ==
    [][(/\ IsPerformStep
        /\ scheme = "WithoutHelper"
        /\ NearestGhostInRange
        /\ ~call'.crouch)
           => (/\ ret' = FALSE
               /\ proximity_output' = Some(ghost_sensor[1]))]_vars

\* two different ghost hits in range, the nearest one selected
C8_Witness ==
    /\ stage = "Decided"
    /\ scheme = "WithoutHelper"
    /\ Len(ghost_sensor) = 2
    /\ NearestGhostInRange
    /\ ghost_sensor[2].proximity > ghost_sensor[1].proximity
    /\ ~call.crouch
    /\ ret = FALSE
    /\ proximity_output = Some(ghost_sensor[1])

----------------------------------------------------------------------------
(* C9 *)

\* C9: under WithoutHelper, when the ghost sensor is empty or its first hit
\* has proximity < 1.0, the output is not overridden and the call returns
\* crouch; and the outcome is the same for every crouch_just_pressed, every
\* min_proximity and every tail of the ghost sensor after its first hit.
C9_WithoutHelperLooksAtNearestOnly ==
    [][(IsPerformStep /\ scheme = "WithoutHelper")
           => (/\ ~NearestGhostInRange
                   => (/\ proximity_output' = proximity_output
                       /\ ret' = call'.crouch)
               /\ \A jp \in BOOLEAN, mp \in Proximities :
                      LET r == perform_and_check_if_still_crouching(
                                   scheme, call'.crouch, jp,
                                   fall_through_helper, proximity_output,
                                   FirstHitOnly(ghost_sensor), mp)
                      IN  /\ r.result = ret'
                          /\ r.output = proximity_output')]_vars

\* the first hit is out of range, a later one is in range, crouch is held
C9_Witness ==
    /\ stage = "Decided"
    /\ scheme = "WithoutHelper"
    /\ Len(ghost_sensor) = 2
    /\ ghost_sensor[1].proximity < F(1)
    /\ ghost_sensor[2].proximity >= F(1)
    /\ call.crouch
    /\ call.crouch_just_pressed
    /\ call.min_proximity < F(1)
    /\ ret = TRUE
    /\ proximity_output = Some(Hit(Ground, MaxProximity * Half))

----------------------------------------------------------------------------
(* C10 *)

GhostPlatformAvailable(min_proximity) ==
    AvailableIndices(ghost_sensor, min_proximity) # {}

\* C10: under SingleFall, a press (crouch and crouch_just_pressed) in the
\* helper's Idle state with a ghost platform available starts falling
\* through one platform and returns false; a frame with crouch held and
\* crouch_just_pressed false starts falling through no further platform.
C10_SingleFallOnePlatformPerPress ==
    [][(IsPerformStep /\ scheme = "SingleFall" /\ call'.crouch)
           => (/\ (/\ call'.crouch_just_pressed
                   /\ fall_through_helper.state = "Idle"
                   /\ GhostPlatformAvailable(call'.min_proximity))
                      => (/\ fall_through_helper'.state = "FallingThroughOne"
                          /\ Cardinality(fall_through_helper'.through) = 1
                          /\ ret' = FALSE)
               /\ ~call'.crouch_just_pressed
                      => fall_through_helper'.through
                             \subseteq fall_through_helper.through)]_vars

\* crouch is held without a new press while one platform is being passed
\* and another one is in range: the character is put on that other one
C10_Witness ==
    /\ stage = "Decided"
    /\ scheme = "SingleFall"
    /\ call.crouch
    /\ ~call.crouch_just_pressed
    /\ ret = FALSE
    /\ fall_through_helper.state = "FallingThroughOne"
    /\ Cardinality(fall_through_helper.through) = 1
    /\ \E i \in AvailableIndices(ghost_sensor, call.min_proximity) :
           /\ ghost_sensor[i].entity \notin fall_through_helper.through
           /\ proximity_output = Some(ghost_sensor[i])

----------------------------------------------------------------------------
(* C11 *)

\* C11: under KeepFalling, every call with crouch held and a ghost platform
\* available returns false, and a call with crouch released returns false
\* and leaves the helper Idle.
C11_KeepFallingKeepsFalling ==
    [][(IsPerformStep /\ scheme = "KeepFalling")
           => (/\ (call'.crouch /\ GhostPlatformAvailable(call'.min_proximity))
                      => ret' = FALSE
               /\ ~call'.crouch
                      => (ret' = FALSE /\ fall_through_helper' = HelperIdle))]_vars

\* crouch held without a new press while two platforms are being passed
C11_Witness ==
    /\ stage = "Decided"
    /\ scheme = "KeepFalling"
    /\ call.crouch
    /\ ~call.crouch_just_pressed
    /\ ret = FALSE
    /\ fall_through_helper.state = "FallingThroughContinuous"
    /\ Cardinality(fall_through_helper.through) = 2

----------------------------------------------------------------------------
(* C12 *)

\* C12: under SingleFall and KeepFalling, a call with crouch = false invokes
\* dont_fall and no other helper operation and returns false, in every
\* helper state and for every ghost sensor, crouch_just_pressed and
\* min_proximity; both schemes have the same outcome on such a call.
C12_ReleaseStopsFalling ==
    [][(/\ IsPerformStep
        /\ scheme \in {"SingleFall", "KeepFalling"}
        /\ ~call'.crouch)
           => (/\ ret' = FALSE
               /\ effects'.helper_calls = << <<"dont_fall">> >>
               /\ LET d == dont_fall(fall_through_helper, proximity_output,
                                     ghost_sensor, call'.min_proximity)
                  IN  /\ fall_through_helper' = d.helper
                      /\ proximity_output' = d.output
               /\ \A jp \in BOOLEAN, mp \in Proximities :
                      perform_and_check_if_still_crouching(
                          "SingleFall", FALSE, jp, fall_through_helper,
                          proximity_output, ghost_sensor, mp)
                      = perform_and_check_if_still_crouching(
                            "KeepFalling", FALSE, jp, fall_through_helper,
                            proximity_output, ghost_sensor, mp))]_vars

\* a release under SingleFall, with crouch_just_pressed set and a ghost
\* platform sensed
C12_Witness ==
    /\ stage = "Decided"
    /\ scheme = "SingleFall"
    /\ ~call.crouch
    /\ call.crouch_just_pressed
    /\ ghost_sensor # <<>>
    /\ ret = FALSE
    /\ effects.helper_calls = << <<"dont_fall">> >>
    /\ fall_through_helper = HelperIdle

----------------------------------------------------------------------------
(* C13 *)

InRan(name) == \E i \in DOMAIN ran : ran[i] = name

IsPipelineStage(name) == name # TnuaUserControlsSystemSet

PipelineStagesRan == SelectSeq(ran, IsPipelineStage)

IsPrefix(a, b) == Len(a) <= Len(b) /\ \A i \in DOMAIN a : a[i] = b[i]

\* C13: in every tick the stages run once each in the order Sensors,
\* SubservientSensors, Logic, Motors, and Logic runs only after this tick's
\* sensing and fall-through decision, reading the output they left.
C13_PipelineOrder ==
    /\ [](IsPrefix(PipelineStagesRan, TnuaPipelineStages))
    /\ [](stage = "Motors" => PipelineStagesRan = TnuaPipelineStages)
    /\ [][(stage # "Logic" /\ stage' = "Logic")
             => (/\ InRan("Sensors")
                 /\ InRan("SubservientSensors")
                 /\ InRan(TnuaUserControlsSystemSet)
                 /\ logic_input'
                        = Some([output |-> proximity_output,
                                crouching |-> ret]))]_vars

\* Logic has read a ghost hit that the fall-through decision of this tick
\* wrote over the sensed output, with propagation after the decision
C13_Witness ==
    /\ stage = "Logic"
    /\ ran = <<"Sensors", "UserControls", "SubservientSensors", "Logic">>
    /\ effects.output_writes = 1
    /\ ghost_sensor # <<>>
    /\ logic_input = Some([output |-> Some(ghost_sensor[1]),
                           crouching |-> FALSE])

----------------------------------------------------------------------------
(* C14 *)

IsCalculator(c) ==
    /\ DOMAIN c = {"height", "kinetic_energy"}
    /\ c.height \in Int
    /\ c.kinetic_energy \in Int

\* every chain of n further add_segment calls on c returns a calculator
RECURSIVE AddSegmentIsTotal(_, _)
AddSegmentIsTotal(c, n) ==
    /\ IsCalculator(c)
    /\ n > 0 => \A g \in Gravities, vt \in Thresholds :
                    AddSegmentIsTotal(add_segment(c, g, vt), n - 1)

\* C14: perform_and_check_if_still_crouching returns a boolean for every
\* scheme and every input, and add_segment returns the calculator for every
\* input, thresholds out of order and zero or negative gravity included.
C14_TotalFunctions ==
    /\ stage = "Start"
           => \A h \in Heights : AddSegmentIsTotal(new(h), MaxSegments - 1)
    /\ stage = "Sensed"
           => \A crouch \in BOOLEAN, jp \in BOOLEAN, mp \in Proximities :
                  perform_and_check_if_still_crouching(
                      scheme, crouch, jp, fall_through_helper,
                      proximity_output, ghost_sensor, mp).result \in BOOLEAN
    /\ stage = "Decided" => ret \in BOOLEAN

\* a helper scheme was called on an empty ghost sensor; zero and negative
\* gravity and a lower second threshold return calculators
C14_Witness ==
    /\ stage = "Decided"
    /\ scheme = "SingleFall"
    /\ ghost_sensor = <<>>
    /\ call.crouch
    /\ ret = TRUE
    /\ add_segment(new(F(1)), 0, F(1)) = [height |-> 0, kinetic_energy |-> 0]
    /\ add_segment(new(F(1)), -F(1), F(1)).height > F(1)
    /\ add_segment(add_segment(new(F(2)), F(1), F(1)), F(1), 0)
           = add_segment(new(F(2)), F(1), F(1))

----------------------------------------------------------------------------
(* C15 *)

\* C15: with crouch held the call returns the negation of the helper's
\* result: of try_falling_one_step_at_a_time(crouch_just_pressed) under
\* SingleFall, of try_falling under KeepFalling, and that operation is the
\* only one invoked.
C15_NegatesHelperResult ==
    [][(IsPerformStep /\ call'.crouch)
           => (/\ scheme = "SingleFall"
                      => (/\ ret' = ~try_falling_one_step_at_a_time(
                                         fall_through_helper, proximity_output,
                                         ghost_sensor, call'.min_proximity,
                                         call'.crouch_just_pressed).result
                          /\ effects'.helper_calls
                                 = << <<"try_falling_one_step_at_a_time",
                                        call'.crouch_just_pressed>> >>)
               /\ scheme = "KeepFalling"
                      => (/\ ret' = ~try_falling(
                                         fall_through_helper, proximity_output,
                                         ghost_sensor,
                                         call'.min_proximity).result
                          /\ effects'.helper_calls
                                 = << <<"try_falling">> >>))]_vars

\* the helper found nothing to fall through: still crouching
C15_Witness ==
    /\ stage = "Decided"
    /\ scheme = "KeepFalling"
    /\ call.crouch
    /\ ghost_sensor # <<>>
    /\ ret = TRUE
    /\ effects.helper_calls = << <<"try_falling">> >>

----------------------------------------------------------------------------
(* C16 *)

----------------------------------------------------------------------------
(* C17 *)

ThresholdEnergies ==
    {HalfSquare(segments[i].velocity_threshold) : i \in 1 .. NumSegments}

\* C17: after any sequence of calls with gravity > 0, in any threshold
\* order, kinetic_energy is at most the largest 0.5 * velocity_threshold^2
\* added so far, and a call that raises kinetic_energy raises it at most to
\* its own threshold energy.
C17_EnergyBoundedByThreshold ==
    /\ [](PositiveGravities
              => (\/ kinetic_energy = 0
                  \/ \E e \in ThresholdEnergies : kinetic_energy <= e))
    /\ [][(/\ IsAddSegmentStep
           /\ CalledSegment.gravity > 0
           /\ kinetic_energy' > kinetic_energy)
             => kinetic_energy'
                    <= HalfSquare(CalledSegment.velocity_threshold)]_vars

\* thresholds out of order: the second, lower one added nothing
C17_Witness ==
    /\ NumSegments = 3
    /\ PositiveGravities
    /\ HalfSquare(segments[2].velocity_threshold)
           < HalfSquare(segments[1].velocity_threshold)
    /\ HalfSquare(segments[1].velocity_threshold)
           < HalfSquare(segments[3].velocity_threshold)
    /\ kinetic_energy > HalfSquare(segments[1].velocity_threshold)
    /\ kinetic_energy < HalfSquare(segments[3].velocity_threshold)
    /\ height = 0

----------------------------------------------------------------------------
(* C18 *)

HelperValues ==
    {HelperIdle}
        \cup {[state |-> st, through |-> t] :
                  st \in {"FallingThroughOne", "FallingThroughContinuous"},
                  t \in (SUBSET Platforms) \ {{}}}

\* C18: no call changes the ghost sensor; under WithoutHelper the call
\* neither reads nor changes the helper's state, changes nothing but the
\* proximity sensor's output, and writes it at most once, only when crouch
\* is false.
C18_WithoutHelperFrame ==
    [][IsPerformStep
           => (/\ ghost_sensor' = ghost_sensor
               /\ scheme = "WithoutHelper"
                      => (/\ fall_through_helper' = fall_through_helper
                          /\ scheme' = scheme
                          /\ effects'.helper_calls = <<>>
                          /\ \A h \in HelperValues :
                                 LET r == perform_and_check_if_still_crouching(
                                              scheme, call'.crouch,
                                              call'.crouch_just_pressed, h,
                                              proximity_output, ghost_sensor,
                                              call'.min_proximity)
                                 IN  /\ r.result = ret'
                                     /\ r.output = proximity_output'
                                     /\ r.helper = h
                          /\ effects'.output_writes <= 1
                          /\ (\/ proximity_output' # proximity_output
                              \/ effects'.output_writes > 0)
                                 => ~call'.crouch))]_vars

\* the helper is mid-fall from an earlier scheme and stays so while
\* WithoutHelper writes the output once
C18_Witness ==
    /\ stage = "Decided"
    /\ scheme = "WithoutHelper"
    /\ fall_through_helper.state = "FallingThroughOne"
    /\ ~call.crouch
    /\ effects.output_writes = 1
    /\ NearestGhostInRange
    /\ proximity_output = Some(ghost_sensor[1])

====
